---- MODULE Spec2Model ----
(***************************************************************************)
(* The editable text widget of egui (src/egui/src/widgets/text_edit.rs):   *)
(* the builder of the TextEdit descriptor, one call of Widget::ui per      *)
(* frame, and the editing helpers insert_text, on_key_press,               *)
(* line_col_from_char_idx, char_idx_from_line_col and line_from_number.    *)
(*                                                                         *)
(* A text is a sequence of characters (Unicode scalar values), so Len is   *)
(* chars().count() and every index is a character offset.                  *)
(***************************************************************************)
EXTENDS Integers, Sequences, FiniteSets, TLC

\* Longest text buffer the model lets the widget build.
MaxLen == 3

\* Most input events delivered to the widget in one frame.
MaxEvents == 2

\* Longest text the editing helpers are called with on their own.
MaxHelperLen == 5

\* ------------------------------------------------------------------------
\* Values

NL == "\n"
CR == "\r"

\* The characters a buffer is made of: an ordinary one and the line separator.
Char == {"a", NL}

RECURSIVE SeqsUpTo(_, _)
SeqsUpTo(S, n) ==
    IF n = 0 THEN {<<>>}
    ELSE LET shorter == SeqsUpTo(S, n - 1)
         IN  shorter \cup {Append(s, c) : s \in {t \in shorter : Len(t) = n - 1}, c \in S}

Texts == SeqsUpTo(Char, MaxLen)

\* Option<T>: None is the empty tuple, Some(v) the one-element tuple.
None == <<>>
Some(v) == <<v>>
unwrap_or(o, d) == IF o = None THEN d ELSE o[1]

\* The identity the widget resolves to (lines 132-139) when the descriptor
\* names neither an id nor an id source.
id == "text_edit"

\* The payloads of Event::Text.
Payloads == {<<"a">>, <<NL>>, <<CR>>, <<"a", NL>>}

Keys == {"Enter", "Escape", "Backspace", "Delete", "Home", "End",
         "Left", "Right", "Up", "Down", "Tab"}

Copy == [type |-> "Copy", text |-> <<>>, key |-> "", pressed |-> FALSE]
Cut == [type |-> "Cut", text |-> <<>>, key |-> "", pressed |-> FALSE]
Text(s) == [type |-> "Text", text |-> s, key |-> "", pressed |-> FALSE]
Key(k, p) == [type |-> "Key", text |-> <<>>, key |-> k, pressed |-> p]
NoEvent == [type |-> "None", text |-> <<>>, key |-> "", pressed |-> FALSE]

Events ==
    {Copy, Cut} \cup {Text(s) : s \in Payloads}
                \cup {Key(k, p) : k \in Keys, p \in BOOLEAN}

\* ------------------------------------------------------------------------
\* State

VARIABLES
    text,                       \* the caller's buffer (&mut String)
    text_edit,                  \* memory().text_edit: Id -> State
    kb_focus_id,                \* the focus registry: who holds keyboard focus
    kb_focus_id_previous_frame, \* who held it when the frame began
    copied_text,                \* output().copied_text
    self,                       \* the TextEdit descriptor being built
    pc,                         \* where the frame is
    multiline,                  \* ui: the destructured descriptor fields in use
    enabled,
    state,                      \* ui: the State loaded from memory
    cursor,                     \* ui: the cursor of the event interpreter
    events_remaining,           \* ui: events of input().events not yet iterated
    response,                   \* the Response ui returned last
    quiet_frame,                \* history: this frame has no click, no press, no event
    key_exit                    \* history: the last frame's loop surrendered focus

vars == <<text, text_edit, kb_focus_id, kb_focus_id_previous_frame, copied_text,
          self, pc, multiline, enabled, state, cursor, events_remaining,
          response, quiet_frame, key_exit>>

\* State::default()
State_default == [cursor |-> None]

\* The descriptor after ui has consumed it.
Moved ==
    [id |-> None, id_source |-> None, text_style |-> None, text_color |-> None,
     multiline |-> FALSE, enabled |-> FALSE, desired_width |-> None,
     desired_height_rows |-> 0]

NoResponse == [lost_kb_focus |-> FALSE]

\* ------------------------------------------------------------------------
\* Collaborators: the focus registry and clamp

request_kb_focus(focus, i) == Some(i)

surrender_kb_focus(focus, i) == IF focus = Some(i) THEN None ELSE focus

has_kb_focus(focus, i) == focus = Some(i)

lost_kb_focus(previous, focus, i) == previous = Some(i) /\ focus # Some(i)

clamp(x, lo, hi) == IF x < lo THEN lo ELSE IF x > hi THEN hi ELSE x

\* ------------------------------------------------------------------------
\* Editing helpers

\* for _ in 0..n { new_text.push(char_it.next().unwrap()) }
RECURSIVE take_chars(_, _, _)
take_chars(n, char_it, new_text) ==
    IF n = 0 THEN [panic |-> FALSE, new_text |-> new_text, char_it |-> char_it]
    ELSE IF char_it = <<>>
         THEN [panic |-> TRUE, new_text |-> new_text, char_it |-> char_it]
         ELSE take_chars(n - 1, Tail(char_it), Append(new_text, Head(char_it)))

\* char_it.skip(1)
skip_1(char_it) == IF char_it = <<>> THEN <<>> ELSE Tail(char_it)

\* insert_text as it would be were the cursor advanced by one per insertion.
insert_text_advance_one(c, t, text_to_insert) ==
    LET r == take_chars(c, t, <<>>)
    IN  IF r.panic
        THEN [panic |-> TRUE, cursor |-> c, text |-> t]
        ELSE [panic |-> FALSE,
              cursor |-> c + 1,
              text |-> r.new_text \o text_to_insert \o r.char_it]

insert_text(c, t, text_to_insert) ==
    LET r == take_chars(c, t, <<>>)
    IN  IF r.panic
        THEN [panic |-> TRUE, cursor |-> c, text |-> t]
        ELSE [panic |-> FALSE,
              cursor |-> c + Len(text_to_insert),
              text |-> r.new_text \o text_to_insert \o r.char_it]

\* s.split('\n'): the lines of s, at least one.
RECURSIVE split(_)
split(s) ==
    IF \A i \in 1..Len(s) : s[i] # NL THEN <<s>>
    ELSE LET i == CHOOSE j \in 1..Len(s) :
                      s[j] = NL /\ \A k \in 1..(j - 1) : s[k] # NL
         IN  <<SubSeq(s, 1, i - 1)>> \o split(SubSeq(s, i + 1, Len(s)))

\* line_col_loop as it would be were the separators not counted.
RECURSIVE line_col_loop_no_separator(_, _, _, _, _, _)
line_col_loop_no_separator(lines, n, char_idx, char_count, last_line_nr, last_line) ==
    IF n > Len(lines) THEN <<last_line_nr, Len(last_line)>>
    ELSE LET line_nr == n - 1
             line_width == Len(lines[n])
         IN  IF char_idx <= char_count + line_width
             THEN <<line_nr, char_idx - char_count>>
             ELSE line_col_loop_no_separator(lines, n + 1, char_idx,
                                             char_count + line_width, line_nr, lines[n])

\* The loop of line_col_from_char_idx over lines[n..], n counted from 1.
RECURSIVE line_col_loop(_, _, _, _, _, _)
line_col_loop(lines, n, char_idx, char_count, last_line_nr, last_line) ==
    IF n > Len(lines) THEN <<last_line_nr, Len(last_line)>>
    ELSE LET line_nr == n - 1
             line_width == Len(lines[n])
         IN  IF char_idx <= char_count + line_width
             THEN <<line_nr, char_idx - char_count>>
             ELSE line_col_loop(lines, n + 1, char_idx,
                                char_count + line_width + 1, line_nr, lines[n])

line_col_from_char_idx(s, char_idx) ==
    line_col_loop(split(s), 1, char_idx, 0, 0, s)

\* char_idx_loop as it would be were the separators not counted.
RECURSIVE char_idx_loop_no_separator(_, _, _, _)
char_idx_loop_no_separator(lines, n, pos, char_count) ==
    IF n > Len(lines) THEN char_count
    ELSE IF n - 1 = pos[1]
         THEN char_count + (IF pos[2] < Len(lines[n]) THEN pos[2] ELSE Len(lines[n]))
         ELSE char_idx_loop_no_separator(lines, n + 1, pos, char_count + Len(lines[n]))

\* The loop of char_idx_from_line_col over lines[n..], n counted from 1.
RECURSIVE char_idx_loop(_, _, _, _)
char_idx_loop(lines, n, pos, char_count) ==
    IF n > Len(lines) THEN char_count
    ELSE IF n - 1 = pos[1]
         THEN char_count + (IF pos[2] < Len(lines[n]) THEN pos[2] ELSE Len(lines[n]))
         ELSE char_idx_loop(lines, n + 1, pos, char_count + Len(lines[n]) + 1)

char_idx_from_line_col(s, pos) == char_idx_loop(split(s), 1, pos, 0)

line_from_number(s, desired_line_number) ==
    LET lines == split(s)
    IN  IF desired_line_number + 1 <= Len(lines)
        THEN lines[desired_line_number + 1]
        ELSE s

\* saturating_sub as it would be were the subtraction not saturating: below
\* zero the result is the number of no line.
wrapping_sub(a, b) == a - b

\* usize::saturating_sub
saturating_sub(a, b) == IF a >= b THEN a - b ELSE 0

\* remove_char_at as it would be were skip(1) left out.
remove_char_at_skips_none(c, t) ==
    LET r == take_chars(c, t, <<>>)
    IN  IF r.panic
        THEN [panic |-> TRUE, cursor |-> c, text |-> t]
        ELSE [panic |-> FALSE, cursor |-> c, text |-> r.new_text \o r.char_it]

\* Backspace (with cursor c already decremented) and Delete: drop the
\* character at c.
remove_char_at(c, t) ==
    LET r == take_chars(c, t, <<>>)
    IN  IF r.panic
        THEN [panic |-> TRUE, cursor |-> c, text |-> t]
        ELSE [panic |-> FALSE, cursor |-> c, text |-> r.new_text \o skip_1(r.char_it)]

on_key_press(c, t, key) ==
    LET same == [panic |-> FALSE, cursor |-> c, text |-> t]
        moved(to) == [panic |-> FALSE, cursor |-> to, text |-> t]
        pos == line_col_from_char_idx(t, c)
    IN  CASE key = "Backspace" /\ c > 0 ->
                 LET r == remove_char_at(c - 1, t)
                 IN  IF r.panic THEN [r EXCEPT !.cursor = c - 1] ELSE r
          [] key = "Delete" -> remove_char_at(c, t)
          [] key = "Enter" -> same
          [] key = "Home" -> moved(char_idx_from_line_col(t, <<pos[1], 0>>))
          [] key = "End" ->
                 moved(char_idx_from_line_col(
                           t, <<pos[1], Len(line_from_number(t, pos[1]))>>))
          [] key = "Left" /\ c > 0 -> moved(c - 1)
          [] key = "Right" -> moved(IF c + 1 < Len(t) THEN c + 1 ELSE Len(t))
          [] key = "Up" ->
                 moved(char_idx_from_line_col(t, <<saturating_sub(pos[1], 1), pos[2]>>))
          [] key = "Down" ->
                 moved(char_idx_from_line_col(t, <<pos[1] + 1, pos[2]>>))
          [] OTHER -> same


\* ------------------------------------------------------------------------
\* The memory store

\* memory().text_edit.get(&id).cloned().unwrap_or_default()
text_edit_get(m, i) == IF i \in DOMAIN m THEN m[i] ELSE State_default

\* memory().text_edit.insert(id, state)
text_edit_insert(m, i, st) ==
    [x \in DOMAIN m \cup {i} |-> IF x = i THEN st ELSE m[x]]

EmptyMap == [x \in {} |-> State_default]

\* ------------------------------------------------------------------------
\* The builder

\* What the builder leaves alone: everything but the descriptor and pc.
not_descriptor ==
    <<text, text_edit, kb_focus_id, kb_focus_id_previous_frame, copied_text,
      multiline, enabled, state, cursor, events_remaining, response,
      quiet_frame, key_exit>>

TextEdit_singleline ==
    /\ pc = "frame"
    /\ self' = [id |-> None, id_source |-> None, text_style |-> None,
                text_color |-> None, multiline |-> FALSE, enabled |-> TRUE,
                desired_width |-> None, desired_height_rows |-> 1]
    /\ pc' = "built"
    /\ UNCHANGED not_descriptor

TextEdit_multiline ==
    /\ pc = "frame"
    /\ self' = [id |-> None, id_source |-> None, text_style |-> None,
                text_color |-> None, multiline |-> TRUE, enabled |-> TRUE,
                desired_width |-> None, desired_height_rows |-> 4]
    /\ pc' = "built"
    /\ UNCHANGED not_descriptor

\* The values the setters are called with.
Ids == {"explicit"}
IdSources == {"name"}
TextStyles == {"Monospace"}
Colors == {"red"}
Widths == {0, 5}
Rows == {2, 3}

\* Id::new(id_source): the hash of the source.
Id_new(id_source) == <<"hash", id_source>>

\* A chainable setter: the descriptor comes back changed, the rest stays.
setter(d) ==
    /\ pc = "built"
    /\ self' = d
    /\ UNCHANGED pc
    /\ UNCHANGED not_descriptor

set_enabled(d, b) == [d EXCEPT !.enabled = b]

set_desired_width(d, desired_width) ==
    [d EXCEPT !.desired_width = Some(desired_width)]

set_desired_rows(d, desired_width) ==
    [d EXCEPT !.desired_width = Some(desired_width)]

TextEdit_id(i) == setter([self EXCEPT !.id = Some(i)])

TextEdit_id_source(id_source) ==
    setter([self EXCEPT !.id_source = Some(Id_new(id_source))])

TextEdit_text_style(text_style) ==
    setter([self EXCEPT !.text_style = Some(text_style)])

TextEdit_text_color(text_color) ==
    setter([self EXCEPT !.text_color = Some(text_color)])

TextEdit_text_color_opt(text_color) ==
    setter([self EXCEPT !.text_color = text_color])

TextEdit_enabled(b) == setter(set_enabled(self, b))

TextEdit_desired_width(desired_width) ==
    setter(set_desired_width(self, desired_width))

TextEdit_desired_rows(desired_width) ==
    setter(set_desired_rows(self, desired_width))

\* ------------------------------------------------------------------------
\* Widget::ui

\* focus_after_pointer as it would be without the else branch of lines 172-175.
focus_after_pointer_click_elsewhere_keeps(focus, en, clicked, hovered, mouse_click, mouse_pressed) ==
    LET f1 == IF clicked /\ en THEN request_kb_focus(focus, id) ELSE focus
    IN  IF ~en THEN surrender_kb_focus(f1, id) ELSE f1

\* focus_after_pointer as it would be without lines 176-178.
focus_after_pointer_disabled_keeps(focus, en, clicked, hovered, mouse_click, mouse_pressed) ==
    IF clicked /\ en
    THEN request_kb_focus(focus, id)
    ELSE IF mouse_click \/ (mouse_pressed /\ ~hovered)
         THEN surrender_kb_focus(focus, id)
         ELSE focus

\* Lines 167-178: the focus the pointer leaves.
focus_after_pointer(focus, en, clicked, hovered, mouse_click, mouse_pressed) ==
    LET f1 == IF clicked /\ en
              THEN request_kb_focus(focus, id)
              ELSE IF mouse_click \/ (mouse_pressed /\ ~hovered)
                   THEN surrender_kb_focus(focus, id)
                   ELSE focus
    IN  IF ~en THEN surrender_kb_focus(f1, id) ELSE f1

\* Lines 167-171: the state the pointer leaves. mouse_pos is None when
\* input().mouse.pos is, and Some(galley.char_at(..).char_idx) otherwise.
state_after_pointer(st, en, clicked, mouse_pos) ==
    IF clicked /\ en /\ mouse_pos # None
    THEN [st EXCEPT !.cursor = Some(mouse_pos[1])]
    ELSE st

\* initial_cursor as it would be were an absent cursor the start of the text.
initial_cursor_at_start(st, t) == clamp(unwrap_or(st.cursor, 0), 0, Len(t))

\* initial_cursor as it would be without the clamp of line 186.
initial_cursor_unclamped(st, t) == unwrap_or(st.cursor, Len(t))

\* Lines 185-186: the cursor the event loop starts from.
initial_cursor(st, t) == clamp(unwrap_or(st.cursor, Len(t)), 0, Len(t))

\* Lines 120-186: destructure the descriptor, load the state, handle the
\* pointer and the focus, and enter the event loop when focused and enabled.
\* State has the one field cursor, which line 225 assigns after the loop and
\* nothing reads before: while the loop runs the loaded value is dead, and
\* the model holds State_default in its place.
ui_begin(clicked, hovered, mouse_click, mouse_pressed, mouse_pos, n_events) ==
    /\ pc = "built"
    /\ LET st == state_after_pointer(text_edit_get(text_edit, id), self.enabled,
                                     clicked, mouse_pos)
           focus == focus_after_pointer(kb_focus_id, self.enabled, clicked,
                                        hovered, mouse_click, mouse_pressed)
           runs == has_kb_focus(focus, id) /\ self.enabled
       IN  /\ multiline' = self.multiline
           /\ enabled' = self.enabled
           /\ self' = Moved
           /\ state' = IF runs THEN State_default ELSE st
           /\ kb_focus_id' = focus
           /\ cursor' = IF runs THEN initial_cursor(st, text) ELSE 0
           /\ events_remaining' = n_events
           /\ pc' = IF ~runs THEN "paint"
                    ELSE IF n_events = 0 THEN "loop_done" ELSE "events"
    /\ quiet_frame' = (~clicked /\ ~mouse_click /\ ~mouse_pressed /\ n_events = 0)
    /\ key_exit' = FALSE
    /\ UNCHANGED <<text, text_edit, kb_focus_id_previous_frame, copied_text,
                   response>>

\* What a handled event may add to the length of the text.
grows(event, ml) ==
    IF event.type = "Text" /\ event.text # <<NL>> /\ event.text # <<CR>>
    THEN Len(event.text)
    ELSE IF event = Key("Enter", TRUE) /\ ml THEN 1 ELSE 0

\* is_terminating as it would be were Escape left to the general key arm.
is_terminating_without_escape(event, ml) == event = Key("Enter", TRUE) /\ ~ml

\* Lines 200-218: the events that surrender focus and break out of the loop.
is_terminating(event, ml) ==
    \/ event = Key("Enter", TRUE) /\ ~ml
    \/ event = Key("Escape", TRUE)

\* on_event as it would be were Cut to take the text out of the buffer.
on_event_cut_deletes(event, ml, c, t, out) ==
    LET keep == [panic |-> FALSE, cursor |-> c, text |-> t,
                 copied_text |-> out, brk |-> FALSE]
        edit(r) == [panic |-> r.panic, cursor |-> r.cursor, text |-> r.text,
                    copied_text |-> out, brk |-> FALSE]
    IN  IF event.type = "Copy" THEN [keep EXCEPT !.copied_text = t]
        ELSE IF event.type = "Cut"
        THEN [keep EXCEPT !.copied_text = t, !.text = <<>>, !.cursor = 0]
        ELSE IF event.type = "Text"
        THEN IF event.text # <<NL>> /\ event.text # <<CR>>
             THEN edit(insert_text(c, t, event.text))
             ELSE keep
        ELSE IF event = Key("Enter", TRUE) /\ ml
        THEN edit(insert_text(c, t, <<NL>>))
        ELSE IF is_terminating(event, ml)
        THEN [keep EXCEPT !.brk = TRUE]
        ELSE IF event.type = "Key" /\ event.pressed
        THEN edit(on_key_press(c, t, event.key))
        ELSE keep

\* on_event as it would be were a key's release handled as its press.
on_event_release_as_press(event, ml, c, t, out) ==
    LET keep == [panic |-> FALSE, cursor |-> c, text |-> t,
                 copied_text |-> out, brk |-> FALSE]
        edit(r) == [panic |-> r.panic, cursor |-> r.cursor, text |-> r.text,
                    copied_text |-> out, brk |-> FALSE]
    IN  IF event.type \in {"Copy", "Cut"} THEN [keep EXCEPT !.copied_text = t]
        ELSE IF event.type = "Text"
        THEN IF event.text # <<NL>> /\ event.text # <<CR>>
             THEN edit(insert_text(c, t, event.text))
             ELSE keep
        ELSE IF event = Key("Enter", TRUE) /\ ml
        THEN edit(insert_text(c, t, <<NL>>))
        ELSE IF is_terminating(event, ml)
        THEN [keep EXCEPT !.brk = TRUE]
        ELSE IF event.type = "Key"
        THEN edit(on_key_press(c, t, event.key))
        ELSE keep

\* Lines 189-223: the match on one event. brk: focus is surrendered and the
\* loop left.
on_event(event, ml, c, t, out) ==
    LET keep == [panic |-> FALSE, cursor |-> c, text |-> t,
                 copied_text |-> out, brk |-> FALSE]
        edit(r) == [panic |-> r.panic, cursor |-> r.cursor, text |-> r.text,
                    copied_text |-> out, brk |-> FALSE]
    IN  IF event.type \in {"Copy", "Cut"} THEN [keep EXCEPT !.copied_text = t]
        ELSE IF event.type = "Text"
        THEN IF event.text # <<NL>> /\ event.text # <<CR>>
             THEN edit(insert_text(c, t, event.text))
             ELSE keep
        ELSE IF event = Key("Enter", TRUE) /\ ml
        THEN edit(insert_text(c, t, <<NL>>))
        ELSE IF is_terminating(event, ml)
        THEN [keep EXCEPT !.brk = TRUE]
        ELSE IF event.type = "Key" /\ event.pressed
        THEN edit(on_key_press(c, t, event.key))
        ELSE keep

\* Lines 188-224: one iteration of the loop over input().events. An unwrap
\* on the exhausted iterator aborts the call.
ui_event(event) ==
    /\ pc = "events"
    /\ Len(text) + grows(event, multiline) <= MaxLen
    /\ LET r == on_event(event, multiline, cursor, text, copied_text)
       IN  IF r.panic
           THEN /\ pc' = "panicked"
                /\ UNCHANGED <<text, cursor, copied_text, kb_focus_id,
                               events_remaining>>
           ELSE /\ text' = r.text
                /\ cursor' = r.cursor
                /\ copied_text' = r.copied_text
                /\ kb_focus_id' = IF r.brk
                                  THEN surrender_kb_focus(kb_focus_id, id)
                                  ELSE kb_focus_id
                /\ events_remaining' = events_remaining - 1
                /\ pc' = IF r.brk \/ events_remaining = 1
                         THEN "loop_done" ELSE "events"
    /\ UNCHANGED <<text_edit, kb_focus_id_previous_frame, self, multiline,
                   enabled, state, response, quiet_frame, key_exit>>

\* ui_response as it would be were the interaction response returned as it is.
ui_response_unaugmented(previous, focus) == [lost_kb_focus |-> FALSE]

\* Lines 278-281: the response returned.
ui_response(previous, focus) ==
    [lost_kb_focus |-> lost_kb_focus(previous, focus, id)]

\* Line 225 (after the loop, when it ran) and line 276: the state saved.
final_state(st, c, ran) == IF ran THEN [st EXCEPT !.cursor = Some(c)] ELSE st

\* Lines 225-281: save the state and return the response.
ui_end ==
    /\ pc \in {"loop_done", "paint"}
    /\ text_edit' = text_edit_insert(text_edit, id,
                                     final_state(state, cursor, pc = "loop_done"))
    /\ response' = ui_response(kb_focus_id_previous_frame, kb_focus_id)
    /\ pc' = "idle"
    /\ multiline' = FALSE
    /\ enabled' = FALSE
    /\ state' = State_default
    /\ cursor' = 0
    /\ events_remaining' = 0
    /\ quiet_frame' = FALSE
    /\ key_exit' = (pc = "loop_done" /\ ~has_kb_focus(kb_focus_id, id))
    /\ UNCHANGED <<text, kb_focus_id, kb_focus_id_previous_frame, copied_text,
                   self>>

\* Context::begin_frame: the focus registry remembers who held focus, and
\* the frame's output starts empty.
begin_frame ==
    /\ pc = "idle"
    /\ kb_focus_id_previous_frame' = kb_focus_id
    /\ copied_text' = <<>>
    /\ response' = NoResponse
    /\ pc' = "frame"
    /\ UNCHANGED <<text, text_edit, kb_focus_id, self, multiline, enabled,
                   state, cursor, events_remaining, quiet_frame, key_exit>>

\* ------------------------------------------------------------------------
\* Specifications

\* The cursors the memory store may hold for the widget, stale ones included.
StoredCursors == {None} \cup {Some(n) : n \in 0..(MaxLen + 1)}

\* What galley.char_at may answer, out-of-range indices included.
MousePositions == {None} \cup {Some(n) : n \in 0..(MaxLen + 1)}

Init ==
    /\ text \in Texts
    /\ text_edit \in {EmptyMap}
                     \cup {[x \in {id} |-> [cursor |-> o]] : o \in StoredCursors}
    /\ kb_focus_id \in {None, Some(id)}
    /\ kb_focus_id_previous_frame = None
    /\ copied_text = <<>>
    /\ self = Moved
    /\ pc = "idle"
    /\ multiline = FALSE
    /\ enabled = FALSE
    /\ state = State_default
    /\ cursor = 0
    /\ events_remaining = 0
    /\ response = NoResponse
    /\ quiet_frame = FALSE
    /\ key_exit = FALSE

\* The frames of one widget: begin_frame, build the descriptor, ui. The
\* pointer position is read only on a click.
Next ==
    \/ begin_frame
    \/ TextEdit_singleline
    \/ TextEdit_multiline
    \/ \E b \in BOOLEAN : TextEdit_enabled(b)
    \/ \E clicked, hovered, mouse_click, mouse_pressed \in BOOLEAN :
           \E mouse_pos \in (IF clicked THEN MousePositions ELSE {None}),
              n_events \in 0..MaxEvents :
               ui_begin(clicked, hovered, mouse_click, mouse_pressed,
                        mouse_pos, n_events)
    \/ \E event \in Events : ui_event(event)
    \/ ui_end

Spec == Init /\ [][Next]_vars

\* The builder alone: a descriptor is constructed and configured.
BuilderInit ==
    /\ text = <<>>
    /\ text_edit = EmptyMap
    /\ kb_focus_id = None
    /\ kb_focus_id_previous_frame = None
    /\ copied_text = <<>>
    /\ self = Moved
    /\ pc = "frame"
    /\ multiline = FALSE
    /\ enabled = FALSE
    /\ state = State_default
    /\ cursor = 0
    /\ events_remaining = 0
    /\ response = NoResponse
    /\ quiet_frame = FALSE
    /\ key_exit = FALSE

BuilderNext ==
    \/ TextEdit_singleline
    \/ TextEdit_multiline
    \/ \E i \in Ids : TextEdit_id(i)
    \/ \E s \in IdSources : TextEdit_id_source(s)
    \/ \E s \in TextStyles : TextEdit_text_style(s)
    \/ \E c \in Colors : TextEdit_text_color(c)
    \/ \E c \in {None} \cup {Some(x) : x \in Colors} : TextEdit_text_color_opt(c)
    \/ \E b \in BOOLEAN : TextEdit_enabled(b)
    \/ \E w \in Widths : TextEdit_desired_width(w)
    \/ \E w \in Rows : TextEdit_desired_rows(w)

BuilderSpec == BuilderInit /\ [][BuilderNext]_vars

\* ------------------------------------------------------------------------
\* The editing helpers on their own: called with any text and any cursor.

HelperTexts == SeqsUpTo(Char, MaxHelperLen)

\* What the helpers leave alone: everything but text, cursor and pc.
not_helper ==
    <<text_edit, kb_focus_id, kb_focus_id_previous_frame, copied_text, self,
      multiline, enabled, state, events_remaining, response, quiet_frame,
      key_exit>>

\* The arm of the match of on_key_press (lines 303-353) that key selects.
on_key_press_arm(c, key) ==
    IF key \in {"Backspace", "Left"}
    THEN IF c > 0 THEN key ELSE "_"
    ELSE IF key \in {"Delete", "Enter", "Home", "End", "Right", "Up", "Down"}
         THEN key
         ELSE "_"

\* on_key_press(&mut cursor, text, key); pc is the arm that ran.
call_on_key_press(key) ==
    /\ pc # "panicked"
    /\ LET r == on_key_press(cursor, text, key)
       IN  IF r.panic
           THEN /\ pc' = "panicked"
                /\ UNCHANGED <<text, cursor>>
           ELSE /\ text' = r.text
                /\ cursor' = r.cursor
                /\ pc' = on_key_press_arm(cursor, key)
    /\ UNCHANGED not_helper

\* insert_text(&mut cursor, text, text_to_insert)
call_insert_text(text_to_insert) ==
    /\ pc # "panicked"
    /\ Len(text) + Len(text_to_insert) <= MaxHelperLen
    /\ LET r == insert_text(cursor, text, text_to_insert)
       IN  IF r.panic
           THEN /\ pc' = "panicked"
                /\ UNCHANGED <<text, cursor>>
           ELSE /\ text' = r.text
                /\ cursor' = r.cursor
                /\ pc' = "insert_text"
    /\ UNCHANGED not_helper

\* cursor = char_idx_from_line_col(text, line_col_from_char_idx(text, cursor))
call_char_idx_from_line_col ==
    /\ pc # "panicked"
    /\ cursor' = char_idx_from_line_col(text, line_col_from_char_idx(text, cursor))
    /\ pc' = "char_idx_from_line_col"
    /\ UNCHANGED text
    /\ UNCHANGED not_helper

HelperInit ==
    /\ text \in HelperTexts
    /\ cursor \in 0..(MaxHelperLen + 1)
    /\ pc = "input"
    /\ text_edit = EmptyMap
    /\ kb_focus_id = Some(id)
    /\ kb_focus_id_previous_frame = None
    /\ copied_text = <<>>
    /\ self = Moved
    /\ multiline = FALSE
    /\ enabled = FALSE
    /\ state = State_default
    /\ events_remaining = 0
    /\ response = NoResponse
    /\ quiet_frame = FALSE
    /\ key_exit = FALSE

HelperNext ==
    \/ \E key \in Keys : call_on_key_press(key)
    \/ \E s \in Payloads : call_insert_text(s)
    \/ call_char_idx_from_line_col

HelperSpec == HelperInit /\ [][HelperNext]_vars

\* ------------------------------------------------------------------------
\* Properties

\* The cursor the memory store holds for the widget (None: no entry, or an
\* entry without a cursor).
StoredCursor(m) == text_edit_get(m, id).cursor

HasNewline(t) == \E i \in 1..Len(t) : t[i] = NL

\* C1: after each event a focused, enabled widget processes, the cursor
\* satisfies 0 <= cursor <= char_count(text).
C1_CursorInRange ==
    pc \in {"events", "loop_done"} => (0 <= cursor /\ cursor <= Len(text))

\* C2: rendering a frame never aborts: insert_text and on_key_press never
\* step their character iterator past the end of the text.
C2_NeverAborts == pc # "panicked"

\* C3: a single-line widget whose buffer holds no "\n" holds none after any
\* event, whatever the payload of a Text event.
C3_SinglelineNoNewline ==
    [][(pc = "events" /\ ~multiline /\ ~HasNewline(text)) => ~HasNewline(text')]_vars

\* C4: a terminating event (Enter in single-line mode, Escape) surrenders
\* focus and stops the iteration without changing text, cursor or clipboard,
\* and what follows the loop saves that cursor and changes none of them, so
\* the events after the terminating one are never applied.
C4_TerminatingEventStops ==
    [][/\ \A e \in {Key("Escape", TRUE), Key("Enter", TRUE)} :
              ( /\ pc = "events"
                /\ e = Key("Enter", TRUE) => ~multiline
                /\ ui_event(e) )
              => /\ pc' = "loop_done"
                 /\ text' = text
                 /\ cursor' = cursor
                 /\ copied_text' = copied_text
                 /\ kb_focus_id' # Some(id)
       /\ pc = "loop_done"
              => /\ pc' = "idle"
                 /\ text' = text
                 /\ copied_text' = copied_text
                 /\ StoredCursor(text_edit') = Some(cursor)]_vars

\* C4 happens: the loop was left with focus surrendered and events not iterated.
C4_Witness ==
    pc = "loop_done" /\ events_remaining > 0 /\ kb_focus_id # Some(id)

QuietFrameEnds ==
    /\ pc \in {"loop_done", "paint"}
    /\ quiet_frame
    /\ has_kb_focus(kb_focus_id, id) <=> kb_focus_id_previous_frame = Some(id)

\* C6 as stated: a frame with no events and no focus change leaves the stored
\* cursor as it was.
C6_QuietFrameKeepsState ==
    [][QuietFrameEnds => StoredCursor(text_edit') = StoredCursor(text_edit)]_vars

\* C6 amended: such a frame leaves the stored cursor as it was when the widget
\* is not focused or not enabled, or when the stored cursor is present and at
\* most char_count(text); a focused, enabled widget whose stored cursor is
\* absent or larger than char_count(text) stores char_count(text).
C6_QuietFrameNormalisesState ==
    [][QuietFrameEnds =>
          LET old == StoredCursor(text_edit)
          IN  IF has_kb_focus(kb_focus_id, id) /\ enabled
              THEN StoredCursor(text_edit') =
                       Some(IF old = None \/ old[1] > Len(text)
                            THEN Len(text) ELSE old[1])
              ELSE StoredCursor(text_edit') = old]_vars

\* C6 happens: a quiet frame of a focused, enabled widget with no stored
\* cursor is about to save the end of a non-empty text.
C6_Witness ==
    /\ QuietFrameEnds
    /\ has_kb_focus(kb_focus_id, id)
    /\ enabled
    /\ StoredCursor(text_edit) = None
    /\ Len(text) > 0
    /\ cursor = Len(text)

\* C7: every frame writes the widget's state to the memory store; after the
\* event loop the stored cursor is the cursor after the last processed event;
\* and the frame after one whose loop surrendered focus, regaining focus by a
\* click without a pointer position, starts from that cursor.
C7_CursorSurvivesRefocus ==
    [][/\ pc \in {"loop_done", "paint"} => id \in DOMAIN text_edit'
       /\ pc = "loop_done" => StoredCursor(text_edit') = Some(cursor)
       /\ \A hovered, mouse_click, mouse_pressed \in BOOLEAN :
              \A n_events \in 0..MaxEvents :
                  ( /\ pc = "built"
                    /\ key_exit
                    /\ self.enabled
                    /\ ui_begin(TRUE, hovered, mouse_click, mouse_pressed,
                                None, n_events) )
                  => Some(cursor') = StoredCursor(text_edit)]_vars

\* C8: a disabled widget ends the frame without focus, its text and stored
\* cursor unchanged, whatever the pointer does; the event loop runs only when
\* enabled and focused, and nothing else changes the text.
C8_DisabledIsInert ==
    [][/\ (pc = "built" /\ pc' # "built" /\ ~self.enabled)
              => /\ pc' = "paint"
                 /\ ~has_kb_focus(kb_focus_id', id)
                 /\ state' = text_edit_get(text_edit, id)
                 /\ text' = text
       /\ (pc \in {"loop_done", "paint"} /\ ~enabled)
              => /\ pc = "paint"
                 /\ ~has_kb_focus(kb_focus_id', id)
                 /\ StoredCursor(text_edit') = StoredCursor(text_edit)
                 /\ text' = text
       /\ text' # text
              => /\ pc = "events"
                 /\ enabled
                 /\ has_kb_focus(kb_focus_id, id)]_vars

\* C8 happens: a widget that held focus was rendered disabled and clicked or
\* not, and it is about to return without focus.
C8_Witness ==
    /\ pc = "paint"
    /\ ~enabled
    /\ kb_focus_id_previous_frame = Some(id)
    /\ kb_focus_id = None
    /\ StoredCursor(text_edit) # None

\* C9: desired_rows sets the row count and leaves every other field of the
\* descriptor, the desired width among them, unchanged.
C9_DesiredRowsSetsRows ==
    [][\A w \in Rows :
           TextEdit_desired_rows(w) =>
               self' = [self EXCEPT !.desired_height_rows = w]]_vars

\* C10: with 0 <= cursor <= char_count(text), a Text(s) event with s neither
\* "\n" nor "\r" makes the text its first cursor characters, then s, then the
\* rest, so the text grows by char_count(s), and advances the cursor by
\* char_count(s).
C10_InsertAtCursor ==
    [][\A s \in Payloads \ {<<NL>>, <<CR>>} :
           ( /\ pc = "events"
             /\ cursor <= Len(text)
             /\ ui_event(Text(s)) )
           => /\ text' = SubSeq(text, 1, cursor) \o s
                             \o SubSeq(text, cursor + 1, Len(text))
              /\ Len(text') = Len(text) + Len(s)
              /\ cursor' = cursor + Len(s)]_vars

\* C10 happens: after Copy took the text "\n\n", an insertion between its two
\* characters made the text "\na\n" with the cursor after the "a".
C10_Witness ==
    /\ pc \in {"events", "loop_done"}
    /\ copied_text = <<NL, NL>>
    /\ text = <<NL, "a", NL>>
    /\ cursor = 2

\* ------------------------------------------------------------------------
\* Properties of the editing helpers

\* t without its character at position c (counted from 1).
WithoutChar(t, c) == SubSeq(t, 1, c - 1) \o SubSeq(t, c + 1, Len(t))

\* C11: with 0 < cursor <= char_count(text), Backspace removes exactly the
\* character before the cursor and decrements the cursor, and inserting the
\* removed character at the resulting cursor restores text and cursor; with
\* cursor = 0, Backspace changes neither.
C11_BackspaceThenInsertRestores ==
    [][call_on_key_press("Backspace") =>
           /\ (0 < cursor /\ cursor <= Len(text))
                  => /\ pc' = "Backspace"
                     /\ text' = WithoutChar(text, cursor)
                     /\ cursor' = cursor - 1
                     /\ insert_text(cursor', text', <<text[cursor]>>) =
                            [panic |-> FALSE, cursor |-> cursor, text |-> text]
           /\ cursor = 0
                  => /\ pc' = "_"
                     /\ text' = text
                     /\ cursor' = 0]_vars

\* C11 happens: the Backspace arm ran between two characters and left the
\* cursor before the separator that remains.
C11_Witness ==
    /\ pc = "Backspace"
    /\ text = <<"a", NL, "a">>
    /\ cursor = 1

\* C12: for every string s, the empty one, those ending in "\n" and those with
\* empty lines included, and every natural number i,
\* char_idx_from_line_col(s, line_col_from_char_idx(s, i)) = min(i, char_count(s)).
C12_LineColRoundTrip ==
    [][call_char_idx_from_line_col =>
           cursor' = IF cursor < Len(text) THEN cursor ELSE Len(text)]_vars

\* C12 happens: the round trip ran on a text with an empty line that ends in
\* "\n" and answered the end of the text.
C12_Witness ==
    /\ pc = "char_idx_from_line_col"
    /\ text = <<"a", NL, NL>>
    /\ cursor = 3

\* The line (of t split on "\n") that holds the character offset c: its
\* number, the offset of its first column and the offset of its end.
LineNr(t, c) == Cardinality({i \in 1..c : t[i] = NL})

LineStart(t, c) ==
    CHOOSE j \in 0..c :
        /\ j = 0 \/ t[j] = NL
        /\ \A k \in (j + 1)..c : t[k] # NL

LineEnd(t, c) ==
    CHOOSE j \in c..Len(t) :
        /\ j = Len(t) \/ t[j + 1] = NL
        /\ \A k \in (c + 1)..j : t[k] # NL

\* "ab\ncdef\ngh"
HomeEndExample == <<"a", "b", NL, "c", "d", "e", "f", NL, "g", "h">>

\* C13: with the cursor in [0, char_count(text)], Home moves it to column 0 of
\* the line that holds it and End to that line's end; neither changes the line
\* number, and End after Home moves the cursor by the line's character count
\* (in "ab\ncdef\ngh" from 5: Home gives 3, then End gives 7).
C13_HomeEndOnCurrentLine ==
    [][/\ (pc' = "Home" /\ cursor <= Len(text) /\ call_on_key_press("Home"))
              => /\ text' = text
                 /\ cursor' = LineStart(text, cursor)
                 /\ LineNr(text, cursor') = LineNr(text, cursor)
                 /\ on_key_press(cursor', text', "End").cursor =
                        cursor' + (LineEnd(text, cursor) - LineStart(text, cursor))
                 /\ on_key_press(5, HomeEndExample, "Home").cursor = 3
       /\ (pc' = "End" /\ cursor <= Len(text) /\ call_on_key_press("End"))
              => /\ text' = text
                 /\ cursor' = LineEnd(text, cursor)
                 /\ LineNr(text, cursor') = LineNr(text, cursor)
                 /\ on_key_press(3, HomeEndExample, "End").cursor = 7]_vars

\* C13 happens: End ran on the middle line of three and stopped at its end,
\* before the second separator.
C13_Witness ==
    /\ pc = "End"
    /\ text = <<"a", NL, "a", "a", NL>>
    /\ cursor = 4

\* The smaller of two numbers.
Min(a, b) == IF a < b THEN a ELSE b

\* The offset of column col, clamped to the line's width, of the line that
\* starts at offset start.
ColumnOfLine(t, start, col) == start + Min(col, LineEnd(t, start) - start)

\* C14: with the cursor in [0, char_count(text)], Down moves it to the same
\* column, clamped to the line's width, of the next line, and on the last
\* line to the end of the text, char_count(text).
C14_DownClampsToEnd ==
    [][(pc' = "Down" /\ cursor <= Len(text) /\ call_on_key_press("Down"))
           => /\ text' = text
              /\ cursor' = IF LineEnd(text, cursor) = Len(text)
                            THEN Len(text)
                            ELSE ColumnOfLine(text, LineEnd(text, cursor) + 1,
                                              cursor - LineStart(text, cursor))]_vars

\* "abc\nde\nfghi"
UpExample == <<"a", "b", "c", NL, "d", "e", NL, "f", "g", "h", "i">>

\* C15: with the cursor in [0, char_count(text)] at line l and column c, Up
\* moves it to line max(l-1, 0) at column min(c, width of that line): on line 0
\* the cursor stays, and a second Up starts from the column the first one
\* clamped (in "abc\nde\nfghi" from 10: Up gives 6, Up again gives 2).
C15_UpKeepsClampedColumn ==
    [][(pc' = "Up" /\ cursor <= Len(text) /\ call_on_key_press("Up"))
           => /\ text' = text
              /\ cursor' = IF LineStart(text, cursor) = 0
                            THEN cursor
                            ELSE ColumnOfLine(text,
                                              LineStart(text, LineStart(text, cursor) - 1),
                                              cursor - LineStart(text, cursor))
              /\ LineNr(text, cursor') =
                     IF LineNr(text, cursor) = 0 THEN 0 ELSE LineNr(text, cursor) - 1
              /\ on_key_press(10, UpExample, "Up").cursor = 6
              /\ on_key_press(6, UpExample, "Up").cursor = 2]_vars

\* C15 happens: Up ran on the last line of "a\n\na" and stopped on the empty
\* middle line, at the column it clamped to 0.
C15_Witness ==
    /\ pc = "Up"
    /\ text = <<"a", NL, NL, "a">>
    /\ cursor = 2

\* ------------------------------------------------------------------------
\* Properties of the frame, continued

\* C16: the pointer and focus rules come before the events of the same frame.
\* When the widget is not clicked and a click happened, or a press while it is
\* not hovered, it is left without focus and the frame ends with text and
\* stored cursor as they were, no event applied. When the enabled widget is
\* clicked it holds focus, the click leaves the stored state alone, and the
\* events are applied starting from galley.char_at's index when the pointer
\* position is available and from the stored cursor when it is not (either
\* one brought into the text as C17 states).
C16_PointerBeforeEvents ==
    [][/\ (pc = "built" /\ pc' # "built") =>
              /\ \A hovered, mouse_click, mouse_pressed \in BOOLEAN :
                     /\ ( /\ mouse_click \/ (mouse_pressed /\ ~hovered)
                          /\ ui_begin(FALSE, hovered, mouse_click, mouse_pressed,
                                      None, events_remaining') )
                        => /\ ~has_kb_focus(kb_focus_id', id)
                           /\ pc' = "paint"
                           /\ text' = text
                           /\ text_edit' = text_edit
                     /\ has_kb_focus(focus_after_pointer(kb_focus_id, TRUE, TRUE, hovered,
                                                         mouse_click, mouse_pressed), id)
              /\ \A mouse_pos \in MousePositions :
                     ( /\ self.enabled
                       /\ ui_begin(TRUE, TRUE, TRUE, FALSE, mouse_pos,
                                   events_remaining') )
                     => /\ has_kb_focus(kb_focus_id', id)
                        /\ pc' = IF events_remaining' = 0 THEN "loop_done" ELSE "events"
                        /\ text' = text
                        /\ text_edit' = text_edit
                        /\ cursor' =
                               IF mouse_pos # None
                               THEN Min(mouse_pos[1], Len(text))
                               ELSE IF StoredCursor(text_edit) # None
                                    THEN Min(StoredCursor(text_edit)[1], Len(text))
                                    ELSE Len(text)
       /\ pc = "paint"
              => /\ pc' = "idle"
                 /\ text' = text
                 /\ StoredCursor(text_edit') = StoredCursor(text_edit)]_vars

\* C16 happens: in multi-line mode, with the end of "aa" as the stored cursor,
\* the widget was clicked at its first column, and the frame's two events,
\* Copy and Enter, have put the "\n" first.
C16_Witness ==
    /\ pc = "loop_done"
    /\ events_remaining = 0
    /\ StoredCursor(text_edit) = Some(2)
    /\ copied_text = <<"a", "a">>
    /\ text = <<NL, "a", "a">>
    /\ cursor = 1

\* C17: before the first event of a focused, enabled frame, an absent cursor
\* is char_count(text) and any cursor, a stale stored one or an out-of-range
\* index of galley.char_at, is clamped into [0, char_count(text)]; so typing
\* into a widget with no stored cursor appends at the end (text "" with
\* Text("ab"), Text("c") gives "abc" and cursor 3).
C17_CursorDefaultedAndClamped ==
    [][(pc = "built" /\ pc' \in {"events", "loop_done"}) =>
           /\ 0 <= cursor' /\ cursor' <= Len(text)
           /\ \A hovered, mouse_click, mouse_pressed \in BOOLEAN :
                  ui_begin(FALSE, hovered, mouse_click, mouse_pressed, None,
                           events_remaining')
                  => cursor' = IF StoredCursor(text_edit) = None
                               THEN Len(text)
                               ELSE Min(StoredCursor(text_edit)[1], Len(text))
           /\ \A mouse_pos \in MousePositions \ {None} :
                  ui_begin(TRUE, TRUE, TRUE, FALSE, mouse_pos, events_remaining')
                  => cursor' = Min(mouse_pos[1], Len(text))
           /\ LET ab == insert_text(initial_cursor(State_default, <<>>), <<>>,
                                    <<"a", "b">>)
                  abc == insert_text(ab.cursor, ab.text, <<"c">>)
              IN  abc = [panic |-> FALSE, cursor |-> 3, text |-> <<"a", "b", "c">>]]_vars

\* C17 happens: the event loop of a widget that was not clicked starts at the
\* end of a one-character text, the stored cursor being 3.
C17_Witness ==
    /\ pc = "events"
    /\ quiet_frame = FALSE
    /\ events_remaining = MaxEvents
    /\ kb_focus_id_previous_frame = Some(id)
    /\ StoredCursor(text_edit) = Some(3)
    /\ Len(text) = 1
    /\ cursor = 1

\* C18: a Copy or Cut event sets the output clipboard text to the whole text
\* as it stands when the event is reached, and leaves text, cursor and focus
\* as they were; Cut deletes nothing.
C18_CopyCutTakeWholeText ==
    [][pc = "events" =>
           \A e \in {Copy, Cut} :
               ui_event(e) => /\ copied_text' = text
                              /\ text' = text
                              /\ cursor' = cursor
                              /\ kb_focus_id' = kb_focus_id]_vars

\* C18 happens: the clipboard holds the text a Copy or Cut found, and an event
\* after it has changed the text.
C18_Witness ==
    /\ pc = "loop_done"
    /\ events_remaining = 0
    /\ copied_text = <<"a", NL>>
    /\ text = <<"a">>

\* C19: in multi-line mode Key{Enter, pressed} inserts one "\n" at the cursor
\* and advances the cursor by 1, keeps focus and goes on to the next event;
\* Text("\n") and Text("\r") change neither text nor cursor in either mode.
C19_EnterInsertsNewline ==
    [][pc = "events" =>
           /\ (multiline /\ ui_event(Key("Enter", TRUE)))
                  => /\ pc' = IF events_remaining = 1 THEN "loop_done" ELSE "events"
                     /\ events_remaining' = events_remaining - 1
                     /\ kb_focus_id' = kb_focus_id
                     /\ cursor' = cursor + 1
                     /\ text' = SubSeq(text, 1, cursor) \o <<NL>>
                                    \o SubSeq(text, cursor + 1, Len(text))
           /\ \A s \in {<<NL>>, <<CR>>} :
                  ui_event(Text(s)) => /\ pc' # "panicked"
                                       /\ text' = text
                                       /\ cursor' = cursor]_vars

\* The events that may change the text.
Changing(ml) ==
    {Text(s) : s \in Payloads}
        \cup {Key("Backspace", TRUE), Key("Delete", TRUE)}
        \cup (IF ml THEN {Key("Enter", TRUE)} ELSE {})

\* C20: the text is changed only by Text events, Enter in multi-line mode,
\* Backspace and Delete: every other event, the navigation keys, Escape, Enter
\* in single-line mode and every key release among them, leaves the text as
\* it was, and a key release leaves cursor and focus as they were too. Stated
\* from the effect: a step that changes the text is the step of an editing
\* event and of no other event, and a step that moves the cursor or the focus
\* is the step of no key release.
C20_OnlyEditsChangeText ==
    [][/\ text' # text => (pc = "events" /\ \E e \in Changing(multiline) : ui_event(e))
       /\ (pc = "events" /\ (text' # text \/ pc' = "panicked"))
              => \A e \in Events \ Changing(multiline) : ~ui_event(e)
       /\ (pc = "events" /\ (cursor' # cursor \/ kb_focus_id' # kb_focus_id))
              => \A k \in Keys : ~ui_event(Key(k, FALSE))]_vars

\* C20 happens: the text a Copy found is the text still, after a second event
\* that surrendered focus and ended the loop.
C20_Witness ==
    /\ pc = "loop_done"
    /\ events_remaining = 0
    /\ kb_focus_id = None
    /\ copied_text = <<"a", NL, "a">>
    /\ text = copied_text

====
